---- MODULE Spec2Model ----
(***************************************************************************)
(* AppSession: a client-side session that times out after inactivity.      *)
(*                                                                         *)
(* The model follows src/Resources/AppSession.js.  Every private function  *)
(* of the module is an operator from a tracker state to a tracker state,   *)
(* composed the way the code calls them; every public method, the          *)
(* heartbeat callback and the passage of time is an action.                *)
(*                                                                         *)
(* Times are milliseconds.  The host's setInterval table (timers) and the  *)
(* Ti.App.Properties store (props) are global to the application; the      *)
(* three closure variables are kept per tracker instance.                  *)
(***************************************************************************)
EXTENDS Integers, FiniteSets, Sequences, TLC

\* ---------------------------------------------------------------- bounds
\* The clock advances in steps of at most ClockStepMs, up to MaxNowMs.
ClockStepMs == 5000
MaxNowMs == 40000
\* At most MaxTimers interval tasks are scheduled at once.
MaxTimers == 2
\* The clock of the two-tracker specification stops at TwoMaxNowMs.
TwoMaxNowMs == 15000

\* ------------------------------------------------------ program constants
\* var sessionTimeoutMs = 600000;
defaultSessionTimeoutMs == 600000
\* var mostFrequentPeriodMs = 15000;
mostFrequentPeriodMs == 15000
\* var userIdKey = 'SESSION_USER_ID';
userIdKey == "SESSION_USER_ID"

\* JS null for the number-valued fields (lastAccessTime, heartbeatTimer).
Null == 0 - 1
\* JS null / undefined as a returned value.
NullValue == "<null>"
Undefined == "<undefined>"

\* Argument lists the callers pass: <<>> is a missing argument.
TimeoutArgs == {<<>>, <<-20000>>, <<0>>, <<20000>>, <<80000>>}
UserIdArgs == {<<>>, <<"">>, <<"user67">>, <<"user42">>}

Max(a, b) == IF a >= b THEN a ELSE b
MinOf(S) == CHOOSE x \in S : \A y \in S : x <= y

VARIABLES
    instances,         \* the tracker instances created with new AppSession()
    now,               \* the host clock, new Date().getTime()
    sessionTimeoutMs,  \* per instance: the TTL of a session
    lastAccessTime,    \* per instance: time of the last touch, or Null
    heartbeatTimer,    \* per instance: the handle setInterval returned, or Null
    timers,            \* the host's scheduled interval tasks: id -> [owner, period, due]
    props,             \* Ti.App.Properties: key -> string
    call,              \* the step just taken: [name, inst, args, ret, pre]
    scen,              \* history, per instance: the setTimeoutMs(t); startNewSession() scenario
    expiredAt,         \* history, per instance: when the session silently expired
    alt                \* the state of the variant of src/unnamed/part_001, run side by side

vars == <<instances, now, sessionTimeoutMs, lastAccessTime, heartbeatTimer,
          timers, props, call, scen, expiredAt, alt>>

\* The program state as one value, so that the code's functions compose.
Cur == [now |-> now, sessionTimeoutMs |-> sessionTimeoutMs,
        lastAccessTime |-> lastAccessTime, heartbeatTimer |-> heartbeatTimer,
        timers |-> timers, props |-> props]

\* ------------------------------------------------------- host environment
\* Ti.App.Properties.removeProperty(key)
removeProperty(p, key) == [k \in DOMAIN p \ {key} |-> p[k]]
\* Ti.App.Properties.setString(key, value)
setString(p, key, value) == [k \in DOMAIN p \cup {key} |-> IF k = key THEN value ELSE p[k]]
\* Ti.App.Properties.getString(key, default)
getString(p, key, default) == IF key \in DOMAIN p THEN p[key] ELSE default

\* setInterval(callback, period): a fresh handle; the task is first due one
\* period from now.
freshTimerId(s) == MinOf({id \in 1..(MaxTimers + 1) : id \notin DOMAIN s.timers})
setInterval(s, id, i, period) ==
    [k \in DOMAIN s.timers \cup {id} |->
        IF k = id THEN [owner |-> i, period |-> period, due |-> s.now + period]
        ELSE s.timers[k]]
\* clearInterval(handle)
clearInterval(s, id) == [k \in DOMAIN s.timers \ {id} |-> s.timers[k]]

\* ------------------------------------------------------ private functions
usingTimeout(s, i) == s.sessionTimeoutMs[i] > 0

clearUserId(s, i) == [s EXCEPT !.props = removeProperty(s.props, userIdKey)]

\* Math.max(mostFrequentPeriodMs, sessionTimeoutMs/4); the timeouts used are
\* multiples of 4, so the quotient is exact.
heartbeatMs(s, i) == Max(mostFrequentPeriodMs, s.sessionTimeoutMs[i] \div 4)

startHeartbeat(s, i) ==
    IF usingTimeout(s, i)
    THEN LET id == freshTimerId(s)
         IN  [s EXCEPT !.timers = setInterval(s, id, i, heartbeatMs(s, i)),
                       !.heartbeatTimer[i] = id]
    ELSE s

\* Variant of stopHeartbeat that forgets the handle without cancelling the task.
stopHeartbeat_noClear(s, i) == [s EXCEPT !.heartbeatTimer[i] = Null]

stopHeartbeat(s, i) ==
    IF s.heartbeatTimer[i] # Null
    THEN [s EXCEPT !.timers = clearInterval(s, s.heartbeatTimer[i]),
                   !.heartbeatTimer[i] = Null]
    ELSE s

\* ------------------------------------------------------- public functions
\* Variant of isSessionLive that counts an elapsed time equal to the timeout as live.
isSessionLive_inclusive(s, i) ==
    IF s.lastAccessTime[i] = Null THEN FALSE
    ELSE IF ~usingTimeout(s, i) THEN TRUE
    ELSE s.now - s.lastAccessTime[i] <= s.sessionTimeoutMs[i]

isSessionLive(s, i) ==
    IF s.lastAccessTime[i] = Null THEN FALSE
    ELSE IF ~usingTimeout(s, i) THEN TRUE
    ELSE s.now - s.lastAccessTime[i] < s.sessionTimeoutMs[i]

endSession(s, i) ==
    LET s1 == stopHeartbeat(s, i)
        s2 == [s1 EXCEPT !.lastAccessTime[i] = Null]
    IN  clearUserId(s2, i)

\* Variant of touchSession that never resets the inactivity clock.
touchSession_noUpdate(s, i) == s

\* Variant of touchSession without the liveness test.
touchSession_always(s, i) == [s EXCEPT !.lastAccessTime[i] = s.now]

touchSession(s, i) ==
    IF isSessionLive(s, i)
    THEN [s EXCEPT !.lastAccessTime[i] = s.now]
    ELSE s

\* Variant of getUserId that skips the teardown of a dead session.
getUserId_noCleanup(s, i) ==
    IF isSessionLive(s, i) THEN touchSession(s, i) ELSE s

\* Variant of getUserId that reads a live session without touching it.
getUserId_noTouch(s, i) ==
    IF isSessionLive(s, i) THEN s ELSE endSession(s, i)

\* getUserId: the state it leaves, and the value it returns.
getUserId(s, i) ==
    IF isSessionLive(s, i) THEN touchSession(s, i) ELSE endSession(s, i)
getUserIdResult(s, i) == getString(getUserId(s, i).props, userIdKey, NullValue)

\* Variant of setTimeoutMs without the truthiness test: 0 is accepted.
setTimeoutMs_acceptsZero(s, i, args) ==
    IF Len(args) = 1 /\ args[1] >= 0
    THEN [s EXCEPT !.sessionTimeoutMs[i] = args[1]]
    ELSE s

\* if (timeoutMs && (timeoutMs >= 0)): a missing argument and 0 are falsy.
setTimeoutMs(s, i, args) ==
    IF Len(args) = 1 /\ args[1] # 0 /\ args[1] >= 0
    THEN [s EXCEPT !.sessionTimeoutMs[i] = args[1]]
    ELSE s

getTimeoutMs(s, i) == s.sessionTimeoutMs[i]

\* Variant of startNewSession that keeps a user id that is already stored.
startNewSession_keepsUserId(s, i, args) ==
    LET s1 == IF isSessionLive(s, i) THEN endSession(s, i) ELSE s
        userId == IF Len(args) = 1 /\ args[1] # "" THEN args[1] ELSE "0"
        s2 == [s1 EXCEPT !.props = setString(s1.props, userIdKey,
                                             getString(s.props, userIdKey, userId))]
        s3 == [s2 EXCEPT !.lastAccessTime[i] = s2.now]
    IN  startHeartbeat(s3, i)

\* startNewSession up to the call of startHeartbeat:
\* userIdOfSession ? userIdOfSession : 0, stored with setString.
sessionStarted(s, i, args) ==
    LET s1 == IF isSessionLive(s, i) THEN endSession(s, i) ELSE s
        userId == IF Len(args) = 1 /\ args[1] # "" THEN args[1] ELSE "0"
        s2 == [s1 EXCEPT !.props = setString(s1.props, userIdKey, userId)]
    IN  [s2 EXCEPT !.lastAccessTime[i] = s2.now]

startNewSession(s, i, args) == startHeartbeat(sessionStarted(s, i, args), i)

\* startNewSession of the variant in src/unnamed/part_001, which ends the
\* session unconditionally; the variant's other functions are the same.
startNewSessionAlways(s, i, args) ==
    LET s1 == endSession(s, i)
        userId == IF Len(args) = 1 /\ args[1] # "" THEN args[1] ELSE "0"
        s2 == [s1 EXCEPT !.props = setString(s1.props, userIdKey, userId)]
        s3 == [s2 EXCEPT !.lastAccessTime[i] = s2.now]
    IN  startHeartbeat(s3, i)

\* The function handed to setInterval.
heartbeatCallback(s, i) ==
    IF ~isSessionLive(s, i) THEN endSession(s, i) ELSE s

\* The interval task id fires: its callback runs, and the task is due again
\* one period later unless the callback cancelled it.
fired(s, id) ==
    LET t == heartbeatCallback(s, s.timers[id].owner)
    IN  IF id \in DOMAIN t.timers
        THEN [t EXCEPT !.timers[id].due = s.now + s.timers[id].period]
        ELSE t

\* ---------------------------------------------------------------- history
\* The state machine's view of instance i in state s.
status(s, i) ==
    IF s.lastAccessTime[i] = Null THEN "inactive"
    ELSE IF isSessionLive(s, i) THEN "live"
    ELSE "expired"

NoScen == [t |-> Null, at |-> Null]

\* The scenario "setTimeoutMs(t) then startNewSession(), then only touches
\* issued in time": t, and the time of the start or of the last touch.
scenAfter(i, name) ==
    CASE name = "startNewSession" ->
            IF /\ call.name = "setTimeoutMs" /\ call.inst = i
               /\ Len(call.args) = 1 /\ call.args[1] >= 0
            THEN [t |-> call.args[1], at |-> now]
            ELSE NoScen
      [] name = "touch" ->
            IF scen[i].t >= 1 /\ now - scen[i].at < scen[i].t
            THEN [scen[i] EXCEPT !.at = now]
            ELSE NoScen
      [] name \in {"isLive", "getTimeoutMs"} -> scen[i]
      [] OTHER -> NoScen

\* The moment instance i's session expired, while no touch, getUserId,
\* startNewSession, endSession or setTimeoutMs call was made on it since.
expiredAfter(i, s, t, isCall) ==
    IF t.lastAccessTime[i] = Null \/ isSessionLive(t, i) THEN Null
    ELSE IF isSessionLive(s, i) THEN t.now
    ELSE IF isCall THEN Null
    ELSE expiredAt[i]

\* ---------------------------------------------------------------- actions
Apply(t) ==
    /\ now' = t.now
    /\ sessionTimeoutMs' = t.sessionTimeoutMs
    /\ lastAccessTime' = t.lastAccessTime
    /\ heartbeatTimer' = t.heartbeatTimer
    /\ timers' = t.timers
    /\ props' = t.props
    /\ UNCHANGED instances

\* A call of a public method on instance i that takes the state to t.
Step(i, name, args, ret, t, mutates) ==
    /\ Apply(t)
    /\ call' = [name |-> name, inst |-> i, args |-> args, ret |-> ret,
                 pre |-> status(Cur, i)]
    /\ scen' = [scen EXCEPT ![i] = scenAfter(i, name)]
    /\ expiredAt' = [j \in instances |->
                        expiredAfter(j, Cur, t, mutates /\ j = i)]

Called(i, name, args, ret, t, mutates) ==
    Step(i, name, args, ret, t, mutates) /\ UNCHANGED alt

SetTimeoutMs(i) ==
    \E args \in TimeoutArgs :
        Called(i, "setTimeoutMs", args, Undefined, setTimeoutMs(Cur, i, args), TRUE)

GetTimeoutMs(i) ==
    Called(i, "getTimeoutMs", <<>>, getTimeoutMs(Cur, i), Cur, FALSE)

StartNewSession(i) ==
    \E args \in UserIdArgs :
        LET t == startNewSession(Cur, i, args)
        IN  /\ DOMAIN t.timers \subseteq 1..MaxTimers
            /\ Called(i, "startNewSession", args, Undefined, t, TRUE)

Touch(i) ==
    Called(i, "touch", <<>>, Undefined, touchSession(Cur, i), TRUE)

GetUserId(i) ==
    Called(i, "getUserId", <<>>, getUserIdResult(Cur, i), getUserId(Cur, i), TRUE)

\* Variant of isLive that cleans up a dead session when it observes one.
IsLive_cleansUp(i) ==
    Called(i, "isLive", <<>>, isSessionLive(Cur, i),
           IF isSessionLive(Cur, i) THEN Cur ELSE endSession(Cur, i), FALSE)

IsLive(i) ==
    Called(i, "isLive", <<>>, isSessionLive(Cur, i), Cur, FALSE)

EndSession(i) ==
    Called(i, "endSession", <<>>, Undefined, endSession(Cur, i), TRUE)

\* The interval task id is due and fires.
TickStep(id) ==
    /\ id \in DOMAIN timers
    /\ timers[id].due = now
    /\ LET i == timers[id].owner
           t2 == fired(Cur, id)
       IN  /\ Apply(t2)
           /\ call' = [name |-> "heartbeat", inst |-> i, args |-> <<id>>, ret |-> Undefined,
                        pre |-> status(Cur, i)]
           /\ scen' = scen
           /\ expiredAt' = [j \in instances |-> expiredAfter(j, Cur, t2, FALSE)]

HeartbeatTick(id) == TickStep(id) /\ UNCHANGED alt

\* The time to the next moment an interval task of s is due, at most ClockStepMs.
nextStep(s) ==
    MinOf({ClockStepMs} \cup {s.timers[id].due - s.now : id \in DOMAIN s.timers})
noneDue(s) == \A id \in DOMAIN s.timers : s.timers[id].due > s.now

\* The clock advances by d.
AdvanceBy(d) ==
    LET t == [Cur EXCEPT !.now = now + d]
    IN  /\ now + d <= MaxNowMs
        /\ Apply(t)
        /\ call' = [name |-> "advance", inst |-> 0, args |-> <<d>>, ret |-> Undefined,
                     pre |-> "none"]
        /\ scen' = scen
        /\ expiredAt' = [j \in instances |-> expiredAfter(j, Cur, t, FALSE)]

\* Time passes, up to the next moment an interval task is due.
Advance ==
    /\ noneDue(Cur)
    /\ AdvanceBy(nextStep(Cur))
    /\ UNCHANGED alt

\* The state of the trackers insts right after construction.
initialState(insts) ==
    [now |-> 0,
     sessionTimeoutMs |-> [i \in insts |-> defaultSessionTimeoutMs],
     lastAccessTime |-> [i \in insts |-> Null],
     heartbeatTimer |-> [i \in insts |-> Null],
     timers |-> <<>>,
     props |-> <<>>]

\* var appSession = new AppSession();
InitWith(insts) ==
    /\ alt = initialState({1})
    /\ instances = insts
    /\ now = 0
    /\ sessionTimeoutMs = [i \in insts |-> defaultSessionTimeoutMs]
    /\ lastAccessTime = [i \in insts |-> Null]
    /\ heartbeatTimer = [i \in insts |-> Null]
    /\ timers = <<>>
    /\ props = <<>>
    /\ call = [name |-> "new", inst |-> 0, args |-> <<>>, ret |-> Undefined, pre |-> "none"]
    /\ scen = [i \in insts |-> NoScen]
    /\ expiredAt = [i \in insts |-> Null]

Init == InitWith({1})

Next ==
    \/ \E i \in instances : SetTimeoutMs(i)
    \/ \E i \in instances : GetTimeoutMs(i)
    \/ \E i \in instances : StartNewSession(i)
    \/ \E i \in instances : Touch(i)
    \/ \E i \in instances : GetUserId(i)
    \/ \E i \in instances : IsLive(i)
    \/ \E i \in instances : EndSession(i)
    \/ \E id \in 1..MaxTimers : HeartbeatTick(id)
    \/ Advance

Spec == Init /\ [][Next]_vars

\* ----------------------------------------------------------------- claims
\* The interval tasks whose callback belongs to instance i.
tasksOf(i) == {id \in DOMAIN timers : timers[id].owner = i}
\* The program variables a call can change.
progVars == <<now, sessionTimeoutMs, lastAccessTime, heartbeatTimer, timers, props>>

\* C1: at most one recurring heartbeat task is scheduled per tracker, it is
\* the one held in heartbeatTimer, and none is scheduled once the session has
\* been ended (lastAccessTime is null).
C1_OneHeartbeatTask ==
    \A i \in instances :
        /\ Cardinality(tasksOf(i)) <= 1
        /\ tasksOf(i) \subseteq {heartbeatTimer[i]}
        /\ (lastAccessTime[i] = Null => tasksOf(i) = {})

\* C2: after setTimeoutMs(0) followed by startNewSession(), with no further
\* calls but isLive and getTimeoutMs, the session is live however much time
\* has passed, and no heartbeat task is scheduled.
C2_ZeroTimeoutNeverExpires ==
    \A i \in instances :
        scen[i].t = 0 => isSessionLive(Cur, i) /\ heartbeatTimer[i] = Null

C4_DeadStaysDead ==
    [][\A i \in instances :
         (~isSessionLive(Cur, i) /\ call'.name # "startNewSession")
            => ~isSessionLive(Cur', i)]_vars

\* C5: after setTimeoutMs(t), t >= 1, then startNewSession(), the session is
\* live for as long as fewer than t ms have passed since the start or the last
\* touch, every touch having been issued in time; and a touch on a live
\* session sets lastAccessTime to the current time.
C5_LiveWhileTouched ==
    /\ [](\A i \in instances :
            (scen[i].t >= 1 /\ now - scen[i].at < scen[i].t) => isSessionLive(Cur, i))
    /\ [][\A i \in instances :
            (call'.name = "touch" /\ call'.inst = i /\ isSessionLive(Cur, i))
               => lastAccessTime'[i] = now]_vars

\* C5 witness: a session started under a timeout of 20000 was touched in
\* time and is reported live after more than 20000 ms since its start.
C5_Witness ==
    /\ scen[1].t = 20000 /\ scen[1].at > 0
    /\ now > 20000 /\ now - scen[1].at < 20000
    /\ call.name = "isLive" /\ call.ret = TRUE

\* C6: on a started session with a positive timeout isLive() returns true
\* exactly when now - lastAccessTime < timeoutMs.
C6_LiveIffWithinTimeout ==
    \A i \in instances :
        (/\ call.name = "isLive" /\ call.inst = i
         /\ lastAccessTime[i] # Null /\ sessionTimeoutMs[i] > 0)
            => (call.ret <=> (now - lastAccessTime[i] < sessionTimeoutMs[i]))

\* C6 witness: isLive() returned false when exactly timeoutMs had elapsed.
C6_Witness ==
    /\ call.name = "isLive" /\ call.ret = FALSE
    /\ lastAccessTime[call.inst] # Null
    /\ now - lastAccessTime[call.inst] = sessionTimeoutMs[call.inst]

\* C7: touch() on a session that is not live changes nothing, and the
\* session is still not live afterwards.
C7_TouchDeadIsNoOp ==
    [][\A i \in instances :
         (call'.name = "touch" /\ call'.inst = i /\ ~isSessionLive(Cur, i))
            => /\ UNCHANGED progVars
               /\ ~isSessionLive(Cur', i)]_vars

\* C7 witness: touch() was called on an expired session that had not been
\* cleaned up; its stale fields are all still there.
C7_Witness ==
    /\ call.name = "touch" /\ call.pre = "expired"
    /\ lastAccessTime[call.inst] # Null
    /\ heartbeatTimer[call.inst] # Null
    /\ userIdKey \in DOMAIN props

\* C8: endSession() leaves lastAccessTime null, heartbeatTimer null with its
\* task cancelled and the user id removed, so the session is not live; it can
\* be called in every state, and calling it again changes nothing.
C8_EndSessionIdempotent ==
    /\ [][\A i \in instances :
            (call'.name = "endSession" /\ call'.inst = i)
               => /\ lastAccessTime'[i] = Null
                  /\ heartbeatTimer'[i] = Null
                  /\ (heartbeatTimer[i] # Null => heartbeatTimer[i] \notin DOMAIN timers')
                  /\ userIdKey \notin DOMAIN props'
                  /\ ~isSessionLive(Cur', i)]_vars
    /\ [](\A i \in instances : ENABLED EndSession(i))
    /\ [](call.name = "endSession" => endSession(Cur, call.inst) = Cur)

\* C8 witness: endSession() was called on a live session.
C8_Witness ==
    /\ call.name = "endSession" /\ call.pre = "live"
    /\ lastAccessTime[call.inst] = Null
    /\ heartbeatTimer[call.inst] = Null

\* C9: a session that expired, with no touch, getUserId, startNewSession,
\* endSession or setTimeoutMs call since, is ended by the heartbeat no later
\* than max(15000, timeoutMs/4) after the moment it expired.
C9_CleanupWithinOneInterval ==
    \A i \in instances :
        expiredAt[i] # Null =>
            now - expiredAt[i] <= Max(mostFrequentPeriodMs, sessionTimeoutMs[i] \div 4)

\* C10: getUserId() on a session that is not live performs the endSession
\* teardown and returns null.
C10_GetUserIdCleansUp ==
    [][\A i \in instances :
         (call'.name = "getUserId" /\ call'.inst = i /\ ~isSessionLive(Cur, i))
            => /\ lastAccessTime'[i] = Null
               /\ heartbeatTimer'[i] = Null
               /\ (heartbeatTimer[i] # Null => heartbeatTimer[i] \notin DOMAIN timers')
               /\ userIdKey \notin DOMAIN props'
               /\ call'.ret = NullValue]_vars

\* C10 witness: getUserId() was called on an expired session that had not
\* been cleaned up, and returned null.
C10_Witness ==
    /\ call.name = "getUserId" /\ call.pre = "expired"
    /\ call.ret = NullValue
    /\ lastAccessTime[call.inst] = Null

\* C11: getUserId() on a live session sets lastAccessTime to the current
\* time, so the session is live afterwards, and returns the stored user id
\* without changing it, the heartbeat or the timeout; the stored id is the one
\* the most recent startNewSession was given, since startNewSession stores
\* its argument and no other step replaces a stored id by another.
C11_GetUserIdTouchesLive ==
    /\ [][\A i \in instances :
            (call'.name = "getUserId" /\ call'.inst = i /\ isSessionLive(Cur, i))
               => /\ lastAccessTime'[i] = now
                  /\ isSessionLive(Cur', i)
                  /\ userIdKey \in DOMAIN props
                  /\ call'.ret = props[userIdKey]
                  /\ UNCHANGED <<now, sessionTimeoutMs, heartbeatTimer, timers, props>>]_vars
    /\ [][(call'.name = "startNewSession" /\ Len(call'.args) = 1 /\ call'.args[1] # "")
               => (userIdKey \in DOMAIN props' /\ props'[userIdKey] = call'.args[1])]_vars
    /\ [][(call'.name # "startNewSession" /\ userIdKey \in DOMAIN props')
               => (userIdKey \in DOMAIN props /\ props'[userIdKey] = props[userIdKey])]_vars

\* C11 witness: getUserId() was called on a live session some time after its
\* start; it returned 'user67' and reset the inactivity clock.
C11_Witness ==
    /\ call.name = "getUserId" /\ call.pre = "live" /\ call.ret = "user67"
    /\ now > 0 /\ lastAccessTime[call.inst] = now

\* C12: startNewSession(B), from any state, leaves the session live with
\* lastAccessTime the current time, and the payload accessor would return B
\* (for a non-empty B), whatever was stored before.
C12_StartNewSessionReplaces ==
    [][\A i \in instances :
         (call'.name = "startNewSession" /\ call'.inst = i)
            => /\ lastAccessTime'[i] = now
               /\ isSessionLive(Cur', i)
               /\ ((Len(call'.args) = 1 /\ call'.args[1] # "")
                     => getUserIdResult(Cur', i) = call'.args[1])]_vars

\* C12 witness: startNewSession('user42') was called while a session was
\* live, and 'user42' is what is stored.
C12_Witness ==
    /\ call.name = "startNewSession" /\ call.pre = "live"
    /\ call.args = <<"user42">>
    /\ getUserIdResult(Cur, call.inst) = "user42"
    /\ lastAccessTime[call.inst] = now /\ now > 0

\* Two trackers created in the same application.  To keep the state space
\* small the clock stops at TwoMaxNowMs, and the callers pass one positive
\* timeout and non-empty user ids only.
InitTwo == InitWith({1, 2})
TwoBound ==
    /\ now <= TwoMaxNowMs
    /\ (call.name = "setTimeoutMs" => call.args = <<20000>>)
    /\ (call.name = "startNewSession" => call.args \in {<<"user67">>, <<"user42">>})
NextTwo ==
    \/ \E i \in instances : SetTimeoutMs(i) /\ TwoBound'
    \/ \E i \in instances : GetTimeoutMs(i) /\ TwoBound'
    \/ \E i \in instances : StartNewSession(i) /\ TwoBound'
    \/ \E i \in instances : Touch(i) /\ TwoBound'
    \/ \E i \in instances : GetUserId(i) /\ TwoBound'
    \/ \E i \in instances : IsLive(i) /\ TwoBound'
    \/ \E i \in instances : EndSession(i) /\ TwoBound'
    \/ \E id \in 1..MaxTimers : HeartbeatTick(id) /\ TwoBound'
    \/ Advance /\ TwoBound'
SpecTwo == InitTwo /\ [][NextTwo]_vars

\* C13: a step of one tracker instance leaves what isLive(), getTimeoutMs()
\* and getUserId() return on every other instance unchanged.
C13_InstancesIndependent ==
    [][\A i, j \in instances :
         (i # j /\ call'.inst = i)
            => /\ isSessionLive(Cur', j) = isSessionLive(Cur, j)
               /\ getTimeoutMs(Cur', j) = getTimeoutMs(Cur, j)
               /\ getUserIdResult(Cur', j) = getUserIdResult(Cur, j)]_vars

\* C14: isLive() and getTimeoutMs() change neither lastAccessTime, the
\* heartbeat task, the stored user id nor the timeout, in any state.
C14_QueriesArePure ==
    [][call'.name \in {"isLive", "getTimeoutMs"} => UNCHANGED progVars]_vars

\* C14 witness: isLive() returned false on an expired session that had not
\* been cleaned up, and the stale fields are all still there.
C14_Witness ==
    /\ call.name = "isLive" /\ call.pre = "expired" /\ call.ret = FALSE
    /\ lastAccessTime[call.inst] # Null
    /\ heartbeatTimer[call.inst] # Null
    /\ userIdKey \in DOMAIN props

\* C15 as stated: lastAccessTime is null if and only if isLive() returns false.
C15_NullIffNotLive ==
    \A i \in instances : (lastAccessTime[i] = Null) <=> ~isSessionLive(Cur, i)

\* C15 as amended: if lastAccessTime is null then isLive() returns false; the
\* converse holds in the states a heartbeat tick, getUserId or endSession
\* leaves (the steps that clean up an expired session), and in the other
\* states isLive() is false with lastAccessTime non-null only when at least
\* timeoutMs have elapsed since lastAccessTime.
C15_NullIffNotLiveAfterCleanup ==
    \A i \in instances :
        /\ (lastAccessTime[i] = Null => ~isSessionLive(Cur, i))
        /\ ((call.name \in {"heartbeat", "getUserId", "endSession"} /\ call.inst = i)
                => (lastAccessTime[i] = Null <=> ~isSessionLive(Cur, i)))
        /\ (~isSessionLive(Cur, i) =>
                \/ lastAccessTime[i] = Null
                \/ now - lastAccessTime[i] >= sessionTimeoutMs[i])

\* C15 witness: a heartbeat tick found the session expired and cleaned it up.
C15_Witness ==
    /\ call.name = "heartbeat" /\ call.pre = "expired"
    /\ lastAccessTime[call.inst] = Null

\* C16: heartbeatTimer is non-null only if the timeout is positive and
\* lastAccessTime is non-null; it is null when startNewSession comes to
\* schedule the new heartbeat, and after every endSession, also one run by
\* getUserId or by the heartbeat callback.
C16_HeartbeatTimerDiscipline ==
    /\ [](\A i \in instances :
            heartbeatTimer[i] # Null =>
                (sessionTimeoutMs[i] > 0 /\ lastAccessTime[i] # Null))
    /\ [][\A i \in instances :
            (call'.name = "startNewSession" /\ call'.inst = i)
               => sessionStarted(Cur, i, call'.args).heartbeatTimer[i] = Null]_vars
    /\ [][\A i \in instances :
            (/\ call'.inst = i
             /\ \/ call'.name = "endSession"
                \/ (call'.name \in {"getUserId", "heartbeat"} /\ ~isSessionLive(Cur, i)))
               => heartbeatTimer'[i] = Null]_vars

\* C17: while a heartbeat task is scheduled its period is
\* max(15000, timeoutMs/4) for the timeout configured now.
C17_PeriodFollowsTimeout ==
    \A i \in instances :
        heartbeatTimer[i] # Null =>
            timers[heartbeatTimer[i]].period = heartbeatMs(Cur, i)

PairCalled(name, args, ret, t, mutates, u) ==
    /\ Step(1, name, args, ret, t, mutates)
    /\ alt' = u

PairSetTimeoutMs ==
    \E args \in TimeoutArgs :
        PairCalled("setTimeoutMs", args, Undefined,
                   setTimeoutMs(Cur, 1, args), TRUE, setTimeoutMs(alt, 1, args))

PairGetTimeoutMs ==
    PairCalled("getTimeoutMs", <<>>, getTimeoutMs(Cur, 1), Cur, FALSE, alt)

PairStartNewSession ==
    \E args \in UserIdArgs :
        LET t == startNewSession(Cur, 1, args)
            u == startNewSessionAlways(alt, 1, args)
        IN  /\ DOMAIN t.timers \subseteq 1..MaxTimers
            /\ DOMAIN u.timers \subseteq 1..MaxTimers
            /\ PairCalled("startNewSession", args, Undefined, t, TRUE, u)

PairTouch ==
    PairCalled("touch", <<>>, Undefined, touchSession(Cur, 1), TRUE, touchSession(alt, 1))

PairGetUserId ==
    PairCalled("getUserId", <<>>, getUserIdResult(Cur, 1),
               getUserId(Cur, 1), TRUE, getUserId(alt, 1))

PairIsLive ==
    PairCalled("isLive", <<>>, isSessionLive(Cur, 1), Cur, FALSE, alt)

PairEndSession ==
    PairCalled("endSession", <<>>, Undefined, endSession(Cur, 1), TRUE, endSession(alt, 1))

\* The interval tasks of s that are due now.
dueTasks(s) == {id \in DOMAIN s.timers : s.timers[id].due = s.now}

\* The tasks that are due fire, in the order they were scheduled.
RECURSIVE fireDue(_)
fireDue(s) == IF dueTasks(s) = {} THEN s ELSE fireDue(fired(s, MinOf(dueTasks(s))))

\* The interval tasks that are due fire, on both hosts at the same moment, so
\* that every call finds both trackers at the same point of their schedules.
PairTick ==
    /\ dueTasks(Cur) # {} \/ dueTasks(alt) # {}
    /\ LET t == fireDue(Cur)
       IN  /\ Apply(t)
           /\ expiredAt' = [j \in instances |-> expiredAfter(j, Cur, t, FALSE)]
    /\ alt' = fireDue(alt)
    /\ call' = [name |-> "heartbeat", inst |-> 1, args |-> <<>>, ret |-> Undefined,
                 pre |-> status(Cur, 1)]
    /\ scen' = scen

\* Time passes on both hosts, up to the next moment a task of either is due.
PairAdvance ==
    /\ noneDue(Cur) /\ noneDue(alt)
    /\ LET d == MinOf({nextStep(Cur), nextStep(alt)})
       IN  /\ AdvanceBy(d)
           /\ alt' = [alt EXCEPT !.now = alt.now + d]

NextPair ==
    \/ PairSetTimeoutMs
    \/ PairGetTimeoutMs
    \/ PairStartNewSession
    \/ PairTouch
    \/ PairGetUserId
    \/ PairIsLive
    \/ PairEndSession
    \/ PairTick
    \/ PairAdvance

SpecPair == Init /\ [][NextPair]_vars

\* C19: run side by side on the same calls, clock advances and heartbeat
\* ticks, the two variants return the same values from isLive(), getUserId()
\* and getTimeoutMs() at every step.
C19_VariantsEquivalent ==
    /\ now = alt.now
    /\ isSessionLive(Cur, 1) = isSessionLive(alt, 1)
    /\ getUserIdResult(Cur, 1) = getUserIdResult(alt, 1)
    /\ getTimeoutMs(Cur, 1) = getTimeoutMs(alt, 1)

====
